---- MODULE Spec2Model ----
(***************************************************************************)
(* SUMO_Analyse.ino: decoder of an RC sum (PPM) signal on an Arduino Uno.  *)
(*                                                                         *)
(* Two execution contexts share channel[], readyToShow and currentChannel: *)
(*   - read_ppm(), the interrupt service routine attached to the rising    *)
(*     edge of the input pin.  It runs to completion (interrupts are off   *)
(*     while it runs), so it is one atomic action.                         *)
(*   - loop(), called for ever by the Arduino core.  An interrupt can be   *)
(*     served between any two of its statements, so every statement that   *)
(*     touches shared state is an action of its own; pc is the line of     *)
(*     the statement loop() executes next.                                 *)
(* Timer 1 counts half microseconds between the edges.                     *)
(***************************************************************************)
EXTENDS Integers, Sequences, FiniteSets, TLC

VARIABLES
    channel,         \* unsigned int channel[9]                    (line 19)
    readyToShow,     \* boolean readyToShow                        (line 20)
    currentChannel,  \* int currentChannel                         (line 21)
    TCNT1,           \* counter register of timer 1           (lines 57, 63)
    pc,              \* line of loop() that is executed next
    total,           \* local of loop()                            (line 29)
    i,               \* loop variable of the for statement         (line 32)
    line,            \* numbers printed on the unfinished serial line
    signal,          \* scripted input: ticks between consecutive edges
    sent,            \* number of edges of signal delivered so far
    reports,         \* history: the serial lines completed so far
    assertions,      \* history: how often read_ppm set readyToShow
    freshSync,       \* history: a pause was detected with currentChannel = -1
                     \*          since loop() last cleared readyToShow
    lastStep,        \* history: what took the last step
    sinceEdge        \* history: timer ticks counted since the last edge

vars == <<channel, readyToShow, currentChannel, TCNT1, pc, total, i, line,
          signal, sent, reports, assertions, freshSync, lastStep,
          sinceEdge>>

shared == <<channel, readyToShow, currentChannel>>
locals == <<pc, total, i, line>>
counters == <<reports, assertions>>

----------------------------------------------------------------------------
(* Program constants *)

NumChannels == 8          \* for (int i = 0; i < 8; i++), currentChannel < 8
PauseIndex == 8           \* channel[8]: the pause after channel 8
SyncThreshold == 2500     \* pauseDuration > 2500
Unknown == -1             \* currentChannel = -1: "unbekannt"
UIntModulus == 65536      \* unsigned int is 16 bits wide on the AVR

(* Bounds of the model *)

MaxIndex == 10            \* currentChannel is not counted beyond this value
MaxWraps == 1             \* overflows of timer 1 followed between two edges

----------------------------------------------------------------------------
(* Timer values (in ticks of 0.5 microseconds) the free input can show:   *)
(* both sides of the 2500 microsecond threshold, odd and even, and the    *)
(* greatest value of the 16 bit counter.                                  *)
TickValues == {2 * SyncThreshold + 1, 2 * SyncThreshold + 2, UIntModulus - 1}

(* pauseDuration = pauseDuration >> 1 *)
Micros_unshifted(ticks) == ticks

Micros(ticks) == ticks \div 2

----------------------------------------------------------------------------
(* Interrupt service routine *)

(* if (pauseDuration > 2500): a pause of more than 2.5 ms starts a cycle  *)
IsPause_inclusive(pauseDuration) == pauseDuration >= SyncThreshold

IsPause(pauseDuration) == pauseDuration > SyncThreshold

(* The pause ends the cycle that was being read, if one was, and starts   *)
(* the next one.                                                          *)
StartOfCycle_noWait(pauseDuration) ==
    /\ channel' = [channel EXCEPT ![PauseIndex] = pauseDuration]
    /\ readyToShow' = TRUE
    /\ currentChannel' = 0

StartOfCycle_onlyComplete(pauseDuration) ==
    /\ IF currentChannel = NumChannels
       THEN /\ channel' = [channel EXCEPT ![PauseIndex] = pauseDuration]
            /\ readyToShow' = TRUE
       ELSE UNCHANGED <<channel, readyToShow>>
    /\ currentChannel' = 0

StartOfCycle(pauseDuration) ==
    /\ IF currentChannel # Unknown
       THEN /\ channel' = [channel EXCEPT ![PauseIndex] = pauseDuration]
            /\ readyToShow' = TRUE
       ELSE UNCHANGED <<channel, readyToShow>>
    /\ currentChannel' = 0

(* No pause but the value of a channel *)
ChannelValue_preIncrement(pauseDuration) ==
    IF currentChannel # Unknown
    THEN /\ channel' = IF currentChannel + 1 < NumChannels
                       THEN [channel EXCEPT ![currentChannel + 1] = pauseDuration]
                       ELSE channel
         /\ currentChannel' = currentChannel + 1
         /\ UNCHANGED readyToShow
    ELSE UNCHANGED shared

ChannelValue(pauseDuration) ==
    IF currentChannel # Unknown
    THEN /\ channel' = IF currentChannel < NumChannels
                       THEN [channel EXCEPT ![currentChannel] = pauseDuration]
                       ELSE channel
         /\ currentChannel' = currentChannel + 1
         /\ UNCHANGED readyToShow
    ELSE UNCHANGED shared

(* if (!readyToShow): reading is allowed *)
MayRead_always == TRUE

MayRead == ~readyToShow

(* void read_ppm(): served atomically on a rising edge.  currentChannel++ *)
(* is followed up to MaxIndex only.                                       *)
read_ppm_resetWhenRead ==
    LET pauseDuration == Micros(TCNT1)
    IN  /\ ~(MayRead /\ ~IsPause(pauseDuration) /\ currentChannel >= MaxIndex)
        /\ TCNT1' = IF MayRead /\ currentChannel # Unknown THEN 0 ELSE TCNT1
        /\ IF MayRead
           THEN IF IsPause(pauseDuration)
                THEN StartOfCycle(pauseDuration)
                ELSE ChannelValue(pauseDuration)
           ELSE UNCHANGED shared
        /\ UNCHANGED locals

read_ppm ==
    LET pauseDuration == Micros(TCNT1)
    IN  /\ ~(MayRead /\ ~IsPause(pauseDuration) /\ currentChannel >= MaxIndex)
        /\ TCNT1' = 0
        /\ IF MayRead
           THEN IF IsPause(pauseDuration)
                THEN StartOfCycle(pauseDuration)
                ELSE ChannelValue(pauseDuration)
           ELSE UNCHANGED shared
        /\ UNCHANGED locals

----------------------------------------------------------------------------
(* Main context: void loop() *)

(* unsigned int total = channel[8]; *)
loop_L29 ==
    /\ pc = "L29"
    /\ total' = channel[PauseIndex]
    /\ pc' = "L30"
    /\ UNCHANGED <<i, line>>

(* if (readyToShow) { for (int i = 0; ...   -- else loop() returns and is *)
(* called again                                                           *)
loop_L30 ==
    /\ pc = "L30"
    /\ IF readyToShow
       THEN pc' = "L35" /\ i' = 0
       ELSE pc' = "L29" /\ i' = i
    /\ UNCHANGED <<total, line>>

(* Serial.print(channel[i]); *)
loop_L35 ==
    /\ pc = "L35"
    /\ line' = Append(line, channel[i])
    /\ pc' = "L37"
    /\ UNCHANGED <<total, i>>

(* total += channel[i];  then i++ and the test i < 8 *)
loop_L37_offByOne ==
    /\ pc = "L37"
    /\ total' = (total + channel[i]) % UIntModulus
    /\ IF i + 1 <= NumChannels
       THEN i' = i + 1 /\ pc' = "L35"
       ELSE i' = 0 /\ pc' = "L40"
    /\ UNCHANGED line

loop_L37 ==
    /\ pc = "L37"
    /\ total' = (total + channel[i]) % UIntModulus
    /\ IF i + 1 < NumChannels
       THEN i' = i + 1 /\ pc' = "L35"
       ELSE i' = 0 /\ pc' = "L40"       \* i goes out of scope
    /\ UNCHANGED line

(* Serial.print(channel[8]); *)
loop_L40 ==
    /\ pc = "L40"
    /\ line' = Append(line, channel[PauseIndex])
    /\ pc' = "L42"
    /\ UNCHANGED <<total, i>>

(* Serial.println(total): the line is complete and sent, the next number *)
(* is printed on a new line.  total is not read after this statement.     *)
loop_L42 ==
    /\ pc = "L42"
    /\ line' = <<>>
    /\ total' = 0
    /\ pc' = "L43"
    /\ UNCHANGED i

(* readyToShow = false; *)
loop_L43_noClear ==
    /\ pc = "L43"
    /\ pc' = "L44"
    /\ UNCHANGED <<channel, readyToShow, currentChannel, total, i, line>>

loop_L43 ==
    /\ pc = "L43"
    /\ readyToShow' = FALSE
    /\ pc' = "L44"
    /\ UNCHANGED <<channel, currentChannel, total, i, line>>

(* currentChannel = -1; *)
loop_L44 ==
    /\ pc = "L44"
    /\ currentChannel' = Unknown
    /\ pc' = "L45"
    /\ UNCHANGED <<channel, readyToShow, total, i, line>>

(* delay(2000); then loop() returns and is called again *)
loop_L45 ==
    /\ pc = "L45"
    /\ pc' = "L29"
    /\ UNCHANGED <<total, i, line>>

(* One statement of loop() *)
loop ==
    \/ (loop_L29 \/ loop_L30 \/ loop_L45) /\ UNCHANGED shared
    \/ (loop_L35 \/ loop_L37 \/ loop_L40 \/ loop_L42) /\ UNCHANGED shared
    \/ loop_L43
    \/ loop_L44

----------------------------------------------------------------------------
(* State after setup(): the globals as initialised, timer 1 started.      *)
InitProgram ==
    /\ channel = [k \in 0..PauseIndex |-> 0]
    /\ readyToShow = FALSE
    /\ currentChannel = Unknown
    /\ TCNT1 = 0
    /\ pc = "L29"
    /\ total = 0
    /\ i = 0
    /\ line = <<>>
    /\ reports = <<>>
    /\ assertions = 0
    /\ freshSync = FALSE
    /\ lastStep = "setup"
    /\ sinceEdge = 0

(* What the history variables record of a call of read_ppm *)
EdgeHistory ==
    /\ lastStep' = "read_ppm"
    /\ freshSync' = (freshSync \/ (/\ ~readyToShow
                                   /\ Micros(TCNT1) > SyncThreshold
                                   /\ currentChannel = Unknown))
    /\ sinceEdge' = 0

(* What the history variables record of a statement of loop() *)
LoopHistory ==
    /\ lastStep' = "loop"
    /\ freshSync' = (freshSync /\ pc # "L43")
    /\ UNCHANGED sinceEdge

----------------------------------------------------------------------------
(* Free input: any edge at any time *)

(* Timer 1 counts on while no edge arrives; the 16 bit counter starts    *)
(* again at 0 after 65535.                                                *)
Timer1Count ==
    /\ \E t \in TickValues :
           LET ticks == (t - TCNT1) % UIntModulus
           IN  /\ ticks > 0
               /\ sinceEdge + ticks < (MaxWraps + 1) * UIntModulus
               /\ TCNT1' = t
               /\ sinceEdge' = sinceEdge + ticks
    /\ lastStep' = "timer"
    /\ UNCHANGED <<shared, locals, signal, sent, counters, freshSync>>

(* A rising edge. *)
Edge ==
    /\ read_ppm
    /\ EdgeHistory
    /\ UNCHANGED <<signal, sent, counters>>

(* A statement of loop(); the lines printed are not kept. *)
Main ==
    /\ loop
    /\ LoopHistory
    /\ UNCHANGED <<TCNT1, signal, sent, counters>>

Init ==
    /\ InitProgram
    /\ signal = <<>>
    /\ sent = 0

Next == Timer1Count \/ Edge \/ Main

Spec == Init /\ [][Next]_vars

----------------------------------------------------------------------------
(* Scripted input: the edges of signal, in order; signal[k] is the number *)
(* of timer ticks between edge k - 1 and edge k.                          *)

(* Timer 1 counts up to the next edge. *)
SignalTimer ==
    /\ sent < Len(signal)
    /\ TCNT1 < signal[sent + 1]
    /\ TCNT1' = signal[sent + 1]
    /\ sinceEdge' = sinceEdge + (signal[sent + 1] - TCNT1)
    /\ lastStep' = "timer"
    /\ UNCHANGED <<shared, locals, signal, sent, counters, freshSync>>

(* The next rising edge of the signal. *)
SignalEdge ==
    /\ sent < Len(signal)
    /\ TCNT1 = signal[sent + 1]
    /\ read_ppm
    /\ sent' = sent + 1
    /\ EdgeHistory
    /\ assertions' = IF readyToShow' /\ ~readyToShow
                     THEN assertions + 1 ELSE assertions
    /\ UNCHANGED <<signal, reports>>

(* A statement of loop(); the lines printed are kept in reports. *)
MainReport ==
    /\ loop
    /\ LoopHistory
    /\ reports' = IF pc = "L42"
                  THEN Append(reports, Append(line, total)) ELSE reports
    /\ UNCHANGED <<TCNT1, signal, sent, assertions>>

NextSignal == SignalTimer \/ SignalEdge \/ MainReport

(* A well-formed frame: the pause before channel 1, eight channels of     *)
(* 1000 to 2000 microseconds, the pause after channel 8.                  *)
PulseTicks == {2000, 4001}
PauseTicks == {5002, 6000}
Frames ==
    { <<g1>> \o p \o <<g2>> :
          g1 \in PauseTicks, p \in [1..NumChannels -> PulseTicks], g2 \in PauseTicks }

(* The program during delay(2000), after it has reported an earlier      *)
(* frame (channels of 1500, pause of 3500 microseconds).                  *)
InitAfterReport ==
    /\ channel = [k \in 0..PauseIndex |-> IF k = PauseIndex THEN 3500 ELSE 1500]
    /\ readyToShow = FALSE
    /\ currentChannel = Unknown
    /\ TCNT1 = 0
    /\ pc = "L45"
    /\ total = 0
    /\ i = 0
    /\ line = <<>>
    /\ reports = <<>>
    /\ assertions = 0
    /\ freshSync = FALSE
    /\ lastStep = "loop"
    /\ sinceEdge = 0

(* The frame arrives after start-up or after an earlier report. *)
InitFrame ==
    /\ InitProgram \/ InitAfterReport
    /\ signal \in Frames
    /\ sent = 0

SpecFrame == InitFrame /\ [][NextSignal]_vars

(* The frame of the end-to-end scenario: 3000, 8 times 1500, 3000         *)
(* microseconds.                                                          *)
Scenario == <<6000>> \o [j \in 1..NumChannels |-> 3000] \o <<6000>>

InitScenario ==
    /\ InitProgram
    /\ signal = Scenario
    /\ sent = 0

SpecScenario == InitScenario /\ [][NextSignal]_vars

(* A signal of MaxFrames consecutive frames in which every duration is    *)
(* different: channel j of frame f lasts 1000 + 100 f + 10 j microseconds *)
(* and the pause that ends frame f lasts 3000 + f microseconds.           *)
MaxFrames == 2

FrameOf(k) == ((k - 2) \div (NumChannels + 1)) + 1
SlotOf(k) == ((k - 2) % (NumChannels + 1)) + 1
SignalTicks(k) ==
    IF k = 1 THEN 6000
    ELSE IF SlotOf(k) <= NumChannels
         THEN 2 * (1000 + 100 * FrameOf(k) + 10 * SlotOf(k))
         ELSE 2 * (3000 + FrameOf(k))

InitSignal ==
    /\ InitProgram
    /\ signal = [k \in 1..(1 + MaxFrames * (NumChannels + 1)) |-> SignalTicks(k)]
    /\ sent = 0

SpecSignal == InitSignal /\ [][NextSignal]_vars

(* The Arduino core calls loop() for ever and the interrupts are short:   *)
(* the main context always gets to execute its next statement.            *)
FairSignal == SpecSignal /\ WF_vars(MainReport)

(* A signal of MaxRepeats consecutive frames with identical timings: the *)
(* frame of the scenario again and again.                                 *)
MaxRepeats == 3

RepeatTicks(k) == IF SlotOf(k + 1) = 1 THEN 6000 ELSE 3000

InitRepeat ==
    /\ InitProgram
    /\ signal = [k \in 1..(1 + MaxRepeats * (NumChannels + 1)) |-> RepeatTicks(k)]
    /\ sent = 0

SpecRepeat == InitRepeat /\ [][NextSignal]_vars

(* An endless well-formed signal: eight channels of 1500 microseconds and *)
(* a pause of 3000 microseconds, again and again; the program is started  *)
(* at any point of the frame.  sent is the position within the frame.     *)
Period == [j \in 1..NumChannels |-> 3000] \o <<6000>>

CycleEdge ==
    /\ TCNT1 = signal[sent + 1]
    /\ read_ppm
    /\ sent' = (sent + 1) % Len(signal)
    /\ EdgeHistory
    /\ UNCHANGED <<signal, counters>>

InitCycle ==
    /\ InitProgram
    /\ signal = Period
    /\ sent \in 0..(Len(Period) - 1)

NextCycle == SignalTimer \/ CycleEdge \/ Main

(* The signal never stops, and loop() always gets to execute its next     *)
(* statement.                                                             *)
FairCycle ==
    /\ InitCycle
    /\ [][NextCycle]_vars
    /\ WF_vars(SignalTimer)
    /\ WF_vars(CycleEdge)
    /\ WF_vars(Main)

----------------------------------------------------------------------------
(* Properties *)

RECURSIVE SumSeq(_)
SumSeq(q) == IF q = <<>> THEN 0 ELSE Head(q) + SumSeq(Tail(q))

(* A step of read_ppm: the action that sets lastStep to "read_ppm"; a     *)
(* stuttering step changes nothing.                                       *)
EdgeStep == lastStep' = "read_ppm"

(* C1: backpressure.  A rising edge handled while readyToShow is set      *)
(* leaves the nine entries of channel, currentChannel and readyToShow as   *)
(* they are, whatever the timer shows.                                    *)
C1_Backpressure ==
    [][(EdgeStep /\ readyToShow) => UNCHANGED shared]_vars

(* An edge was dropped after loop() printed the line and before it clears *)
(* the flag.                                                              *)
C1_Witness ==
    /\ lastStep = "read_ppm"
    /\ pc = "L43"
    /\ readyToShow

(* C2: a well-formed frame (pause, 8 channels, pause) handled by the      *)
(* unsynchronised decoder sets readyToShow exactly once, on its last      *)
(* edge, and channel then holds the 8 channel durations in order and the  *)
(* closing pause in entry 8.                                              *)
C2_OneFramePerAssertion ==
    /\ assertions = (IF sent = Len(signal) THEN 1 ELSE 0)
    /\ readyToShow =>
           \A k \in 0..PauseIndex : channel[k] = Micros(signal[k + 2])

(* The frame is complete in a buffer that held an earlier frame. *)
C2_Witness ==
    /\ sent = Len(signal)
    /\ readyToShow
    /\ assertions = 1
    /\ channel[0] # channel[1]
    /\ pc = "L45"

(* C3: in the scenario 3000, 8 x 1500, 3000 nothing is reported before    *)
(* the second pause, and exactly one line is reported after it: eight     *)
(* times 1500, pause 3000, total 15000.                                   *)
C3_EndToEnd ==
    /\ sent < Len(signal) => reports = <<>>
    /\ Len(reports) <= 1
    /\ (sent = Len(signal) /\ pc = "L45") => Len(reports) = 1
    /\ \A r \in 1..Len(reports) :
           reports[r] = [j \in 1..NumChannels |-> 1500] \o <<3000, 15000>>

(* C4: the total printed at the end of a line is the sum of the eight     *)
(* channel values and the pause printed in that line.                     *)
C4_TotalIsSum ==
    pc = "L42" => total = SumSeq(line)

(* C5: the interrupt context changes the shared variables only while      *)
(* readyToShow is false, the main context only while it is true.          *)
C5_FlagGatedWrites ==
    [][shared' # shared =>
           IF EdgeStep THEN ~readyToShow ELSE readyToShow]_vars

(* C6: once loop() has cleared readyToShow, read_ppm writes no entry of   *)
(* channel and does not set readyToShow before it has detected a pause    *)
(* with currentChannel = -1.                                              *)
C6_FreshSyncFirst ==
    [][(EdgeStep /\ (channel' # channel \/ (readyToShow' /\ ~readyToShow)))
           => freshSync]_vars

(* C7: whenever readyToShow is set under a well-formed signal, entries    *)
(* 0..7 hold the 8 channel durations that immediately preceded the pause  *)
(* held in entry 8, and no line repeats the channel values of an earlier  *)
(* line.                                                                  *)
C7_CompleteFrame ==
    /\ readyToShow =>
           \E k \in (NumChannels + 2)..sent :
               /\ SlotOf(k) = NumChannels + 1
               /\ channel[PauseIndex] = Micros(signal[k])
               /\ \A j \in 1..NumChannels :
                      channel[j - 1] = Micros(signal[k - (NumChannels + 1) + j])
    /\ \A r1, r2 \in 1..Len(reports) :
           r1 < r2 => SubSeq(reports[r1], 1, NumChannels)
                          # SubSeq(reports[r2], 1, NumChannels)

(* C8: a channel value handled with currentChannel = 8 and readyToShow    *)
(* clear changes no entry of channel and leaves currentChannel at 8.      *)
C8_NinthValueIgnored ==
    [][(/\ EdgeStep
        /\ ~readyToShow
        /\ currentChannel = NumChannels
        /\ ~IsPause(Micros(TCNT1)))
           => (channel' = channel /\ currentChannel' = NumChannels)]_vars

(* C9: currentChannel is -1 or one of 0..8. *)
C9_IndexRange ==
    currentChannel \in {Unknown} \cup 0..NumChannels

(* C10: with readyToShow clear, 2500 microseconds is a channel value      *)
(* (stored in entry i when currentChannel = i < 8, flag left clear) and   *)
(* 2501 microseconds is a pause.                                          *)
C10_Boundary ==
    [][(EdgeStep /\ ~readyToShow) =>
           /\ (Micros(TCNT1) = SyncThreshold /\ currentChannel \in 0..(NumChannels - 1))
                  => /\ channel' = [channel EXCEPT ![currentChannel] = SyncThreshold]
                     /\ currentChannel' = currentChannel + 1
                     /\ ~readyToShow'
           /\ (Micros(TCNT1) = SyncThreshold /\ currentChannel = Unknown)
                  => UNCHANGED shared
           /\ (Micros(TCNT1) = SyncThreshold + 1)
                  => /\ currentChannel' = 0
                     /\ IF currentChannel = Unknown
                        THEN UNCHANGED <<channel, readyToShow>>
                        ELSE /\ readyToShow'
                             /\ channel' = [channel EXCEPT
                                               ![PauseIndex] = SyncThreshold + 1]]_vars

(* A value of exactly 2500 was stored as channel 3. *)
C10_Witness ==
    /\ lastStep = "read_ppm"
    /\ ~readyToShow
    /\ currentChannel = 3
    /\ channel[2] = SyncThreshold
    /\ TCNT1 = 0

(* C11: under a repetition of frames with identical timings every line    *)
(* reported is the same: same channel values, same pause, same total.     *)
C11_Stable ==
    \A r1, r2 \in 1..Len(reports) : reports[r1] = reports[r2]

(* C12: loop() prints only while readyToShow is set, prints one line for  *)
(* every time read_ppm set the flag, never two, and every time the flag   *)
(* is set it is eventually cleared, with that line printed.               *)
C12_OneReportPerAssertion ==
    /\ [](pc \in {"L35", "L37", "L40", "L42"} => readyToShow)
    /\ [](Len(reports) =
             assertions - (IF readyToShow /\ pc # "L43" THEN 1 ELSE 0))
    /\ (readyToShow ~> ~readyToShow)

(* Two assertions, two lines, flag released. *)
C12_Witness ==
    /\ assertions = 2
    /\ Len(reports) = 2
    /\ ~readyToShow

(* C13: the values printed in a line are the contents of channel at the   *)
(* moment read_ppm set readyToShow: the buffer does not change while the  *)
(* flag stays set, whatever edges arrive, each value printed is the entry *)
(* of the buffer, and no statement of loop() writes an entry of channel.  *)
C13_Snapshot ==
    /\ [][(readyToShow /\ readyToShow') => channel' = channel]_vars
    /\ [][lastStep' = "loop" => channel' = channel]_vars
    /\ [](pc \in {"L35", "L37", "L40", "L42"} =>
             /\ readyToShow
             /\ line = [j \in 1..Len(line) |-> channel[j - 1]])
    /\ [](pc = "L42" => Len(line) = NumChannels + 1)

(* An edge arrived while loop() was printing channel 5. *)
C13_Witness ==
    /\ lastStep = "read_ppm"
    /\ pc = "L37"
    /\ Len(line) = 5
    /\ line[1] = SyncThreshold

(* C14: with readyToShow clear and currentChannel in 0..8, a pause edge   *)
(* stores the pause in entry 8, leaves entries 0..7, sets readyToShow and *)
(* leaves currentChannel at 0.                                            *)
C14_PauseWhenSynchronised ==
    [][(/\ EdgeStep
        /\ ~readyToShow
        /\ currentChannel \in 0..NumChannels
        /\ IsPause(Micros(TCNT1)))
           => /\ channel' = [channel EXCEPT ![PauseIndex] = Micros(TCNT1)]
              /\ readyToShow'
              /\ currentChannel' = 0]_vars

(* A pause after a single channel value has set the flag. *)
C14_Witness ==
    /\ lastStep = "read_ppm"
    /\ readyToShow
    /\ currentChannel = 0
    /\ pc = "L29"
    /\ channel[PauseIndex] = SyncThreshold + 1
    /\ channel[0] = SyncThreshold
    /\ \A k \in 1..(NumChannels - 1) : channel[k] = 0

(* C15: with currentChannel = -1 and readyToShow clear, a channel value   *)
(* changes nothing, and a pause sets currentChannel to 0 without writing  *)
(* channel or setting readyToShow.                                        *)
C15_Unsynchronised ==
    [][(EdgeStep /\ ~readyToShow /\ currentChannel = Unknown)
           => IF IsPause(Micros(TCNT1))
              THEN currentChannel' = 0 /\ UNCHANGED <<channel, readyToShow>>
              ELSE UNCHANGED shared]_vars

(* The first pause after a report was detected during delay(2000). *)
C15_Witness ==
    /\ lastStep = "read_ppm"
    /\ pc = "L45"
    /\ ~readyToShow
    /\ currentChannel = 0
    /\ freshSync

(* C16: a channel value handled with currentChannel = i < 8 is written to *)
(* entry i only and moves currentChannel to i + 1; entries 0..7 change in *)
(* no other way; currentChannel changes only by that increment, to 0 on a *)
(* pause and to -1 in loop(); and it is 0 or -1 while readyToShow is set. *)
(* Hence the writes between two pause edges go to 0, 1, 2, ... in order.  *)
C16_WriteOrder ==
    /\ [][(/\ EdgeStep
            /\ ~readyToShow
            /\ ~IsPause(Micros(TCNT1))
            /\ currentChannel \in 0..(NumChannels - 1))
               => /\ channel' = [channel EXCEPT ![currentChannel] = Micros(TCNT1)]
                  /\ currentChannel' = currentChannel + 1
                  /\ ~readyToShow']_vars
    /\ [][(\E k \in 0..(NumChannels - 1) : channel'[k] # channel[k])
               => /\ EdgeStep
                  /\ ~readyToShow
                  /\ ~IsPause(Micros(TCNT1))
                  /\ currentChannel \in 0..(NumChannels - 1)
                  /\ \A k \in 0..PauseIndex :
                         k # currentChannel => channel'[k] = channel[k]]_vars
    /\ [][currentChannel' # currentChannel
               => \/ /\ EdgeStep
                     /\ ~IsPause(Micros(TCNT1))
                     /\ currentChannel >= 0
                     /\ currentChannel' = currentChannel + 1
                  \/ EdgeStep /\ IsPause(Micros(TCNT1)) /\ currentChannel' = 0
                  \/ lastStep' = "loop" /\ currentChannel' = Unknown]_vars
    /\ [](readyToShow => currentChannel \in {0, Unknown})

(* Channels 1 and 2 were written between lines 43 and 44 of loop(). *)
C16_Witness ==
    /\ lastStep = "read_ppm"
    /\ pc = "L44"
    /\ ~readyToShow
    /\ currentChannel = 2
    /\ channel[1] = SyncThreshold

(* What read_ppm has to do with an elapsed value of e microseconds when   *)
(* it may read and currentChannel is known.                               *)
ClassifiedAs(e) ==
    (~readyToShow /\ currentChannel # Unknown) =>
        IF e > SyncThreshold
        THEN readyToShow' /\ channel'[PauseIndex] = e
        ELSE /\ ~readyToShow'
             /\ currentChannel < NumChannels => channel'[currentChannel] = e

(* C17 as stated: every edge resets the timer, and the value classified   *)
(* is the number of ticks since the preceding edge, halved.               *)
C17_SincePrecedingEdge ==
    [][EdgeStep => (TCNT1' = 0 /\ ClassifiedAs(sinceEdge \div 2))]_vars

(* C17 as amended: every edge, also a dropped one, resets the timer; the  *)
(* timer shows the ticks since the preceding edge modulo 65536, and that  *)
(* value, halved, is the one classified.                                  *)
C17_SincePrecedingEdgeMod ==
    /\ [](TCNT1 = sinceEdge % UIntModulus)
    /\ [][EdgeStep =>
             (TCNT1' = 0 /\ ClassifiedAs((sinceEdge % UIntModulus) \div 2))]_vars

(* An edge was dropped while loop() was printing, and reset the timer.    *)
C17_Witness ==
    /\ lastStep = "read_ppm"
    /\ pc = "L40"
    /\ readyToShow
    /\ TCNT1 = 0
    /\ sinceEdge = 0

(* C18: entries 0..7 of channel are at most 2500, and entry 8 is 0 or in  *)
(* 2501..32767.                                                           *)
C18_ValueRange ==
    /\ \A k \in 0..(NumChannels - 1) : channel[k] <= SyncThreshold
    /\ \/ channel[PauseIndex] = 0
       \/ channel[PauseIndex] \in (SyncThreshold + 1)..((UIntModulus \div 2) - 1)

(* The greatest pause and the greatest channel value are in the buffer.   *)
C18_Witness ==
    /\ channel[PauseIndex] = (UIntModulus \div 2) - 1
    /\ channel[0] = SyncThreshold
    /\ channel[NumChannels - 1] = SyncThreshold

(* C19: no addition to total exceeds the 16 bit range, and the total      *)
(* printed is at most 32767 + 8 * 2500.                                   *)
C19_TotalNoWrap ==
    /\ pc = "L37" => total + channel[i] < UIntModulus
    /\ pc = "L42" =>
           total <= ((UIntModulus \div 2) - 1) + NumChannels * SyncThreshold

(* The greatest total is about to be printed. *)
C19_Witness ==
    /\ pc = "L42"
    /\ total = ((UIntModulus \div 2) - 1) + NumChannels * SyncThreshold

(* C20: under an endless well-formed signal and a fair loop(), the flag   *)
(* is set again and again and a line is printed again and again; and the  *)
(* flag is set after at most two pause edges handled with the flag clear: *)
(* a pause edge handled after a pause was already detected with           *)
(* currentChannel = -1 since the flag was last cleared sets the flag.     *)
C20_Live ==
    /\ []<>readyToShow
    /\ []<>(pc = "L42")
    /\ [][(EdgeStep /\ ~readyToShow /\ freshSync /\ IsPause(Micros(TCNT1)))
             => readyToShow']_vars

(* The part of C20 that does not depend on the number of pause edges.     *)
C20_Recurrence ==
    /\ []<>readyToShow
    /\ []<>(pc = "L42")
    /\ []<>(~readyToShow)

====
